---- MODULE Spec2Model ----
(***************************************************************************)
(* A model of stumpy's anytime matrix profile (scrimp.py: SCRIMP and       *)
(* PreSCRIMP) and of the MPdist measure (mpdist.py).                       *)
(*                                                                         *)
(* Arrays are functions over 0..len-1, as in the source.  A series T is a  *)
(* 0/1 series and the window is m = 3: for those the z-normalised squared  *)
(* distance 2m(1 - rho) is an integer (0, 3, 9 or 12), so the walk, the    *)
(* recurrence for the sliding dot product QT and every comparison of the   *)
(* source are computed exactly.  A constant window (sigma = 0) has the     *)
(* distance +inf to every window.                                          *)
(*                                                                         *)
(* A percentage is the rational pnum / PctDen.                             *)
(***************************************************************************)
EXTENDS Integers, Sequences, FiniteSets, TLC

\* ------------------------------------------------------------------ bounds
MaxN == 6          \* longest series given to scrimp
MaxThreads == 2    \* largest config.NUMBA_NUM_THREADS
PctDen == 4        \* percentages are multiples of 1 / PctDen
MaxPct == 5        \* largest percentage numerator (MaxPct / PctDen > 1)
SqrtScale == 10    \* np.sqrt is computed in fixed point, 1 / SqrtScale units
MaxPartN == 7      \* longest series of a partitioner call, every argument varied
MaxSplit == 4      \* largest n_split of such a call
BalN == 11         \* the series length of the calls that split a whole permutation
RedThreads == 3    \* largest number of threads of a _scrimp call run thread by thread
MaxNAB == 4        \* longest series given to mpdist
CfgN == 5          \* the series length of the runs with a thread count reconfigured
\* length of the series of a PreSCRIMP run, and its largest sampling step
PreN == 7
PreMaxS == 3
MaxIdxN == 6       \* longest series of a call of _get_max_order_idx on its own

Inf == 1000000     \* np.inf
Windows == {3}     \* window sizes m
BadWindows == {2}  \* window sizes core.check_window_size refuses
NDims == {1, 2}    \* T.ndim of the array given to scrimp
TVals == {0, 1}    \* values of a series
PctNums == (0 - 1)..MaxPct
Unassigned == (0 - 1)..1   \* what a local read before any assignment may hold
BalSplits == {4}   \* n_split of the calls that split a whole permutation

\* ----------------------------------------------------------------- helpers
Max2(a, b) == IF a >= b THEN a ELSE b
Min2(a, b) == IF a <= b THEN a ELSE b
Abs(a) == IF a >= 0 THEN a ELSE 0 - a

\* ceil(a / b) for b > 0
CeilDiv(a, b) == IF a >= 0 THEN (a + b - 1) \div b ELSE 0 - ((0 - a) \div b)

\* floor(sqrt(x))
RECURSIVE ISqrt(_)
ISqrt(x) ==
  IF x < 2 THEN x
  ELSE LET r == 2 * ISqrt(x \div 4)
       IN IF (r + 1) * (r + 1) <= x THEN r + 1 ELSE r

\* np.sqrt of a squared distance, in units of 1 / SqrtScale
Sqrt(x) == IF x = Inf THEN Inf ELSE ISqrt(x * SqrtScale * SqrtScale)

\* the length of an array
ALen(a) == Cardinality(DOMAIN a)

\* int(np.ceil(m / 4))
ExclZone(m) == CeilDiv(m, 4)

\* np.random.permutation(range(excl_zone + 1, n - m + 2)): its possible values
OrdersOf(n, m) ==
  {[i \in 0..(n - m - ExclZone(m)) |-> f[ExclZone(m) + 1 + i]] :
     f \in Permutations((ExclZone(m) + 1)..(n - m + 1))}

\* ---------------------------------------------- window statistics, distance
RECURSIVE Dot(_,_,_,_)
\* np.dot(T[i : i + m], T[j : j + m])
Dot(T, m, i, j) ==
  IF m = 0 THEN 0 ELSE T[i + m - 1] * T[j + m - 1] + Dot(T, m - 1, i, j)

RECURSIVE WinSum(_,_,_)
WinSum(T, m, i) == IF m = 0 THEN 0 ELSE T[i + m - 1] + WinSum(T, m - 1, i)

\* the scaled variance of window i: m^2 times its variance
WinVar(T, m, i) == m * Dot(T, m, i, i) - WinSum(T, m, i) * WinSum(T, m, i)

\* core.compute_mean_std(T, m), scaled to integers: mu[i] is m times the mean
\* of window i, sigma[i] is the square of m times its standard deviation
MeanStd(T, m) ==
  [mu |-> [i \in 0..(Cardinality(DOMAIN T) - m) |-> WinSum(T, m, i)],
   sigma |-> [i \in 0..(Cardinality(DOMAIN T) - m) |-> WinVar(T, m, i)]]

\* core._calculate_squared_distance(m, QT, mu_Q, sigma_Q, M_T, Sigma_T) with the
\* scaled statistics: 2m(1 - (QT - m mu_Q M_T) / (m sigma_Q Sigma_T)), and +inf
\* for a degenerate (constant) window
_calculate_squared_distance(m, QT, muQ, sigQ, muT, sigT) ==
  IF sigQ = 0 \/ sigT = 0 THEN Inf
  ELSE 2 * m - ((2 * m * (m * QT - muQ * muT)) \div ISqrt(sigQ * sigT))

\* core.mass(Q, T, mu, sigma)[j] squared, for Q = T[i : i + m]
MassSq(T, m, mu, sigma, i, j) ==
  _calculate_squared_distance(m, Dot(T, m, i, j), mu[i], sigma[i], mu[j], sigma[j])

\* ------------------------------------------------------- OrderPartitioner
RECURSIVE SumDist(_,_,_,_,_)
\* the sum of n - m + 2 - orders[x] for x in [a, b)
SumDist(m, n, orders, a, b) ==
  IF a >= b THEN 0
  ELSE (n - m + 2 - orders[a]) + SumDist(m, n, orders, a + 1, b)

RECURSIVE MaxOrderLoop(_,_,_,_,_,_,_)
\* the second loop of _get_max_order_idx from order_idx on: <<order_idx at the
\* loop's end, n_dist_computed>>
MaxOrderLoop(m, n, orders, pnum, max_n_dist, order_idx, n_dist_computed) ==
  LET c == n_dist_computed + (n - m + 2 - orders[order_idx]) IN
  IF c * PctDen > pnum * max_n_dist THEN <<order_idx, c>>
  ELSE IF order_idx + 1 >= ALen(orders) THEN <<order_idx, c>>
  ELSE MaxOrderLoop(m, n, orders, pnum, max_n_dist, order_idx + 1, c)

\* the fraction taken of the diagonals that remain: max_n_dist summed over
\* orders[start:]
MaxOrderIdxOfRemaining(m, n, orders, start, pnum) ==
  LET max_n_dist == SumDist(m, n, orders, start, ALen(orders))
      r == IF start < ALen(orders)
           THEN MaxOrderLoop(m, n, orders, pnum, max_n_dist, start, 0)
           ELSE <<ALen(orders) - 1, 0>>
  IN <<r[1] + 1, r[2]>>

\* _get_max_order_idx: <<max_order_idx, n_dist_computed>>.  When the second
\* loop does not run, order_idx keeps the first loop's last value.
_get_max_order_idx(m, n, orders, start, pnum) ==
  LET max_n_dist == SumDist(m, n, orders, 0, ALen(orders))
      r == IF start < ALen(orders)
           THEN MaxOrderLoop(m, n, orders, pnum, max_n_dist, start, 0)
           ELSE <<ALen(orders) - 1, 0>>
  IN <<r[1] + 1, r[2]>>

\* the outcomes of a call of _get_max_order_idx.  With an empty orders neither
\* loop runs and line 58 reads order_idx, which was never assigned: the
\* interpreter raises UnboundLocalError, a compiled build goes on with
\* whatever the local holds.
MaxOrderIdxOutcomes(m, n, orders, start, pnum) ==
  IF ALen(orders) = 0
  THEN {[raised |-> TRUE, value |-> <<0, 0>>]}
         \cup {[raised |-> FALSE, value |-> <<g + 1, 0>>] : g \in Unassigned}
  ELSE {[raised |-> FALSE, value |-> _get_max_order_idx(m, n, orders, start, pnum)]}

\* the cut test with >= for >: a range is closed as soon as it holds its share
CutHereAtShare(n_dist_computed, n_split, total) == n_dist_computed * n_split >= total

\* line 108: n_dist_computed > max_n_dist_per_range, where max_n_dist_per_range
\* is total / n_split (line 102)
CutHere(n_dist_computed, n_split, total) == n_dist_computed * n_split > total

\* the next range made to start at the diagonal that closed the last one
NextRangeStartSame(order_idx) == order_idx

\* line 114: range_start_idx = order_idx + 1
NextRangeStart(order_idx) == order_idx + 1

RECURSIVE RangesLoop(_,_,_,_,_,_,_,_)
\* the loop of _get_orders_ranges from order_idx on
RangesLoop(n_split, m, n, orders, max_order_idx, total, order_idx, st) ==
  IF order_idx >= max_order_idx THEN st
  ELSE
    LET c == st.n_dist_computed + (n - m + 2 - orders[order_idx]) IN
    IF CutHere(c, n_split, total)
    THEN RangesLoop(n_split, m, n, orders, max_order_idx, total, order_idx + 1,
           [orders_ranges |->
              IF st.ranges_idx \in DOMAIN st.orders_ranges
              THEN [st.orders_ranges EXCEPT ![st.ranges_idx] =
                      <<st.range_start_idx, Min2(order_idx + 1, max_order_idx)>>]
              ELSE st.orders_ranges,
            range_start_idx |-> NextRangeStart(order_idx),
            ranges_idx |-> st.ranges_idx + 1,
            n_dist_computed |-> 0,
            max_written |-> Max2(st.max_written, st.ranges_idx)])
    ELSE RangesLoop(n_split, m, n, orders, max_order_idx, total, order_idx + 1,
           [st EXCEPT !.n_dist_computed = c])

\* _get_orders_ranges with what it leaves behind: orders_ranges, the last
\* ranges_idx and the largest row index written
RangesState(n_split, m, n, orders, start, pnum) ==
  LET mo == _get_max_order_idx(m, n, orders, start, pnum)
      st == RangesLoop(n_split, m, n, orders, mo[1], mo[2], start,
              [orders_ranges |-> [t \in 0..(n_split - 1) |-> <<0, 0>>],
               range_start_idx |-> start,
               ranges_idx |-> 0,
               n_dist_computed |-> 0,
               max_written |-> 0])
  IN [orders_ranges |->
        IF st.ranges_idx \in DOMAIN st.orders_ranges
        THEN [st.orders_ranges EXCEPT ![st.ranges_idx] =
                <<st.range_start_idx, mo[1]>>]
        ELSE st.orders_ranges,
      ranges_idx |-> st.ranges_idx,
      max_written |-> Max2(st.max_written, st.ranges_idx)]

_get_orders_ranges(n_split, m, n, orders, start, pnum) ==
  RangesState(n_split, m, n, orders, start, pnum).orders_ranges

\* --------------------------------------------------------- DiagonalWalker
\* a table: P and I, one row per thread
EmptyTable(n_threads, l) ==
  [P |-> [t \in 0..(n_threads - 1) |-> [i \in 0..(l - 1) |-> Inf]],
   I |-> [t \in 0..(n_threads - 1) |-> [i \in 0..(l - 1) |-> 0 - 1]]]

\* the guard with <= for <: a match at distance excl_zone is let through
OutsideZoneOffByOne(i, k, excl_zone) == i <= i + k - 1 - excl_zone

\* the guard of both writes: i < i + k - 1 - excl_zone
OutsideZone(i, k, excl_zone) == i < i + k - 1 - excl_zone

\* the comparison as <=: a later match at the same distance is taken
WalkTakesOnTie(D_squared, p) == D_squared <= p

\* the comparison of both writes: D_squared < P[thread_idx, a]
WalkTakes(D_squared, p) == D_squared < p

\* the write made into one table shared by the threads: row 0
WalkWriteShared(tab, thread_idx, a, b, D_squared, allowed) ==
  IF allowed /\ WalkTakes(D_squared, tab.P[0][a])
  THEN [P |-> [tab.P EXCEPT ![0][a] = D_squared],
        I |-> [tab.I EXCEPT ![0][a] = b]]
  ELSE tab

\* one write of the walk: position a of row thread_idx takes (D_squared, b)
WalkWrite(tab, thread_idx, a, b, D_squared, allowed) ==
  IF allowed /\ WalkTakes(D_squared, tab.P[thread_idx][a])
  THEN [P |-> [tab.P EXCEPT ![thread_idx][a] = D_squared],
        I |-> [tab.I EXCEPT ![thread_idx][a] = b]]
  ELSE tab

RECURSIVE DiagonalRows(_,_,_,_,_,_,_,_,_,_)
\* the inner loop of _compute_diagonal from row i on, QT_prev the dot product
\* of row i - 1
DiagonalRows(T, m, mu, sigma, k, excl_zone, thread_idx, i, QT_prev, tab) ==
  IF i >= Cardinality(DOMAIN T) - m + 2 - k THEN tab
  ELSE
    LET QT == IF i = 0 THEN Dot(T, m, i, i + k - 1)
              ELSE QT_prev - T[i - 1] * T[i + k - 2]
                     + T[i + m - 1] * T[i + k + m - 2]
        D_squared == _calculate_squared_distance(m, QT, mu[i], sigma[i],
                                                 mu[i + k - 1], sigma[i + k - 1])
        t1 == WalkWrite(tab, thread_idx, i, i + k - 1, D_squared,
                        OutsideZone(i, k, excl_zone))
        t2 == WalkWrite(t1, thread_idx, i + k - 1, i, D_squared,
                        OutsideZone(i, k, excl_zone))
    IN DiagonalRows(T, m, mu, sigma, k, excl_zone, thread_idx, i + 1, QT, t2)

RECURSIVE _compute_diagonal(_,_,_,_,_,_,_,_,_,_)
\* _compute_diagonal: the diagonals orders[orders_start_idx .. orders_stop_idx)
\* walked into row thread_idx of the table
_compute_diagonal(T, m, mu, sigma, orders, orders_start_idx, orders_stop_idx, excl_zone, thread_idx, tab) ==
  IF orders_start_idx >= orders_stop_idx THEN tab
  ELSE _compute_diagonal(T, m, mu, sigma, orders, orders_start_idx + 1,
         orders_stop_idx, excl_zone, thread_idx,
         DiagonalRows(T, m, mu, sigma, orders[orders_start_idx], excl_zone,
                      thread_idx, 0, 0, tab))

\* -------------------------------------------------------- ParallelReducer
RECURSIVE WalkThreads(_,_,_,_,_,_,_,_,_)
\* the prange loop of _scrimp for the threads thread_idx .. n_threads - 1 (no
\* thread reads or writes another thread's row, so any order gives this table)
WalkThreads(T, m, mu, sigma, orders, orders_ranges, excl_zone, thread_idx, tab) ==
  IF thread_idx >= ALen(tab.P) THEN tab
  ELSE WalkThreads(T, m, mu, sigma, orders, orders_ranges, excl_zone,
         thread_idx + 1,
         _compute_diagonal(T, m, mu, sigma, orders,
                           orders_ranges[thread_idx][1],
                           orders_ranges[thread_idx][2], excl_zone,
                           thread_idx, tab))

\* the reduction's comparison turned round: slot 0 keeps the larger distance
ReduceTakesLarger(p0, pt) == p0 < pt

\* the reduction's comparison as >=: on a tie slot 0 takes the later thread's entry
ReduceTakesOnTie(p0, pt) == p0 >= pt

\* the comparison of the reduction: slot 0 is replaced when P[0, i] > P[t, i]
ReduceTakes(p0, pt) == p0 > pt

\* the reduction copying the distance alone: slot 0 keeps its own index
ReduceThreadDistanceOnly(tab, thread_idx) ==
  [P |-> [tab.P EXCEPT ![0] =
            [i \in DOMAIN tab.P[0] |->
               IF ReduceTakes(tab.P[0][i], tab.P[thread_idx][i])
               THEN tab.P[thread_idx][i] ELSE tab.P[0][i]]],
   I |-> tab.I]

\* one thread's row reduced into slot 0
ReduceThread(tab, thread_idx) ==
  LET take == [i \in DOMAIN tab.P[0] |->
                 ReduceTakes(tab.P[0][i], tab.P[thread_idx][i])] IN
  [P |-> [tab.P EXCEPT ![0] =
            [i \in DOMAIN tab.P[0] |->
               IF take[i] THEN tab.P[thread_idx][i] ELSE tab.P[0][i]]],
   I |-> [tab.I EXCEPT ![0] =
            [i \in DOMAIN tab.I[0] |->
               IF take[i] THEN tab.I[thread_idx][i] ELSE tab.I[0][i]]]]

RECURSIVE Reduce(_,_)
\* the reduction of the rows thread_idx .. n_threads - 1 into slot 0
Reduce(tab, thread_idx) ==
  IF thread_idx >= ALen(tab.P) THEN tab
  ELSE Reduce(ReduceThread(tab, thread_idx), thread_idx + 1)

\* what _scrimp returns from its table: np.sqrt(P[0]), I[0]
ScrimpResult(tab) ==
  [P |-> [i \in DOMAIN tab.P[0] |-> Sqrt(tab.P[0][i])], I |-> tab.I[0]]

\* _scrimp with n_threads = config.NUMBA_NUM_THREADS
_scrimp(T, m, mu, sigma, orders, orders_ranges, excl_zone, n_threads) ==
  ScrimpResult(
    Reduce(WalkThreads(T, m, mu, sigma, orders, orders_ranges, excl_zone, 0,
                       EmptyTable(n_threads, Cardinality(DOMAIN T) - m + 1)), 1))

\* ------------------------------------------------------- PreScrimpSampler
\* range(0, l, s)
SampleRows(l, s) == {i \in 0..(l - 1) : i % s = 0}

\* np.square(core.mass(Q, T, mu, sigma)) for Q = T[i : i + m], with
\* D_squared[zone_start : zone_stop + 1] = np.inf
MaskedRow(T, m, mu, sigma, i, excl_zone) ==
  LET l == Cardinality(DOMAIN T) - m + 1
      zone_start == Max2(0, i - excl_zone)
      zone_stop == Min2(l, i + excl_zone)
  IN [j \in 0..(l - 1) |->
        IF j >= zone_start /\ j < zone_stop + 1 THEN Inf
        ELSE MassSq(T, m, mu, sigma, i, j)]

\* np.argmin: the first index of the smallest value
ArgMin(D) ==
  CHOOSE j \in DOMAIN D :
    \A x \in DOMAIN D : D[j] <= D[x] /\ (x < j => D[x] > D[j])

\* the comparison as #: a write is made at a larger distance too
PreTakesAnyChange(D_squared, p) == D_squared # p

\* the comparison as <=: a write is made at an equal distance too
PreTakesOnTie(D_squared, p) == D_squared <= p

\* the comparison of every write of PreSCRIMP's loops: D_squared < P[a]
PreTakes(D_squared, p) == D_squared < p

\* one such write: position a takes (D_squared, b)
PreWrite(tab, a, b, D_squared) ==
  IF PreTakes(D_squared, tab.P[a])
  THEN [P |-> [tab.P EXCEPT ![a] = D_squared], I |-> [tab.I EXCEPT ![a] = b]]
  ELSE tab

\* lines 327-344: row i takes its best match, then every column j takes
\* (D_squared[j], i) when strictly smaller
PreRow(T, m, mu, sigma, i, excl_zone, tab) ==
  LET D_squared == MaskedRow(T, m, mu, sigma, i, excl_zone)
      a == ArgMin(D_squared)
      t1 == [P |-> [tab.P EXCEPT ![i] = D_squared[a]],
             I |-> [tab.I EXCEPT ![i] = IF D_squared[a] = Inf THEN 0 - 1 ELSE a]]
  IN [P |-> [j \in DOMAIN t1.P |->
               IF PreTakes(D_squared[j], t1.P[j]) THEN D_squared[j] ELSE t1.P[j]],
      I |-> [j \in DOMAIN t1.I |->
               IF PreTakes(D_squared[j], t1.P[j]) THEN i ELSE t1.I[j]]]

\* line 348: QT = (m - P[i] / 2) * (sigma[i] * sigma[j]) + m * mu[i] * mu[j],
\* with the scaled statistics
QTFromDistance(m, Pi, mui, sigi, muj, sigj) ==
  (((2 * m - Pi) * ISqrt(sigi * sigj)) \div 2 + m * mui * muj) \div (m * m)

RECURSIVE PreForward(_,_,_,_,_,_,_,_,_,_)
\* lines 350-360 from step k on
PreForward(T, m, mu, sigma, i, j, k, stop, QT_prev, tab) ==
  IF k >= stop THEN tab
  ELSE
    LET QT == QT_prev - T[i + k - 1] * T[j + k - 1]
                + T[i + k + m - 1] * T[j + k + m - 1]
        D_squared == _calculate_squared_distance(m, QT, mu[i + k], sigma[i + k],
                                                 mu[j + k], sigma[j + k])
    IN PreForward(T, m, mu, sigma, i, j, k + 1, stop, QT,
         PreWrite(PreWrite(tab, i + k, j + k, D_squared), j + k, i + k, D_squared))

RECURSIVE PreBackward(_,_,_,_,_,_,_,_,_,_)
\* lines 362-372 from step k on
PreBackward(T, m, mu, sigma, i, j, k, stop, QT_prev, tab) ==
  IF k >= stop THEN tab
  ELSE
    LET QT == QT_prev - T[i - k + m] * T[j - k + m] + T[i - k] * T[j - k]
        D_squared == _calculate_squared_distance(m, QT, mu[i - k], sigma[i - k],
                                                 mu[j - k], sigma[j - k])
    IN PreBackward(T, m, mu, sigma, i, j, k + 1, stop, QT,
         PreWrite(PreWrite(tab, i - k, j - k, D_squared), j - k, i - k, D_squared))

\* lines 346-372: the extension around (i, I[i]).  When row i found no finite
\* match, I[i] is -1 and P[i] is +inf: QT is then -inf or nan, every D_squared
\* computed from it is +inf or nan, and no comparison of the forward loop
\* succeeds; the backward loop's range(1, min(s, i + 1, 0)) is empty.
PreExtend(T, m, mu, sigma, s, i, tab) ==
  LET l == Cardinality(DOMAIN T) - m + 1
      j == tab.I[i]
  IN IF j = 0 - 1 THEN tab
     ELSE
       LET QT == QTFromDistance(m, tab.P[i], mu[i], sigma[i], mu[j], sigma[j])
           fw == PreForward(T, m, mu, sigma, i, j, 1, Min2(s, l - Max2(i, j)), QT, tab)
       IN PreBackward(T, m, mu, sigma, i, j, 1, Min2(s, Min2(i + 1, j + 1)), QT, fw)

\* one iteration of the loop of _prescrimp, for the sampled row i
PreIteration(T, m, mu, sigma, s, i, tab) ==
  PreExtend(T, m, mu, sigma, s, i,
            PreRow(T, m, mu, sigma, i, ExclZone(m), tab))

\* lines 316-324 of _prescrimp, and lines 432-434 of scrimp
EmptyOut(l) == [P |-> [i \in 0..(l - 1) |-> Inf], I |-> [i \in 0..(l - 1) |-> 0 - 1]]

\* line 374: np.sqrt(P), I
PreResult(tab) == [P |-> [i \in DOMAIN tab.P |-> Sqrt(tab.P[i])], I |-> tab.I]

\* ------------------------------------------------------------- MPdist
RECURSIVE DotAB(_,_,_,_,_)
\* np.dot(A[i : i + m], B[j : j + m])
DotAB(A, B, m, i, j) ==
  IF m = 0 THEN 0 ELSE A[i + m - 1] * B[j + m - 1] + DotAB(A, B, m - 1, i, j)

\* mp_func(A, m, B, ignore_trivial=False)[:, 0]: for every window of A the
\* distance to its nearest window of B, +inf when there is none at a finite
\* distance
ABJoin(A, B, m) ==
  LET sA == MeanStd(A, m)
      sB == MeanStd(B, m)
      d(i, j) == _calculate_squared_distance(m, DotAB(A, B, m, i, j), sA.mu[i],
                                             sA.sigma[i], sB.mu[j], sB.sigma[j])
  IN [i \in DOMAIN sA.mu |->
        Sqrt(CHOOSE x \in {d(i, j) : j \in DOMAIN sB.mu} :
               \A j \in DOMAIN sB.mu : x <= d(i, j))]

\* lines 83-84: P_ABBA[: n_A - m + 1] is the AB-join, P_ABBA[n_A - m + 1 :] the
\* BA-join
_compute_P_ABBA(T_A, T_B, m) ==
  LET AB == ABJoin(T_A, T_B, m)
      BA == ABJoin(T_B, T_A, m)
  IN [i \in 0..(ALen(AB) + ALen(BA) - 1) |->
        IF i < ALen(AB) THEN AB[i] ELSE BA[i - ALen(AB)]]

\* the number of x in the array a smaller than a[i], or equal and before it
Rank(a, i) ==
  Cardinality({x \in DOMAIN a : a[x] < a[i] \/ (a[x] = a[i] /\ x < i)})

\* the array left as _compute_P_ABBA wrote it
Unsorted(a) == a

\* line 214, P_ABBA.sort(): ascending
Sorted(a) == [r \in DOMAIN a |-> a[CHOOSE i \in DOMAIN a : Rank(a, i) = r]]

\* lines 219-220: percentage = max(min(percentage, 1.0), 0.0)
MPClamp(pnum) == Max2(Min2(pnum, PctDen), 0)

\* the index without its cap: math.ceil(percentage * (n_A + n_B))
MPPercentageKUncapped(pnum, n_A, n_B, m) == CeilDiv(pnum * (n_A + n_B), PctDen)

\* line 221: min(math.ceil(percentage * (n_A + n_B)), n_A - m + 1 + n_B - m + 1 - 1)
MPPercentageK(pnum, n_A, n_B, m) ==
  Min2(CeilDiv(pnum * (n_A + n_B), PctDen), n_A - m + 1 + n_B - m + 1 - 1)

\* P_ABBA[k] can be read: -len <= k < len; any other k raises IndexError
InBounds(a, k) == k >= 0 - ALen(a) /\ k < ALen(a)

\* P_ABBA[k], a negative k counting from the end
At(a, k) == IF k < 0 THEN a[k + ALen(a)] ELSE a[k]

\* np.count_nonzero(np.isfinite(P_ABBA[:k])), the slice clipped as Python does
FiniteBefore(a, k) ==
  LET stop == IF k < 0 THEN Max2(k + ALen(a), 0) ELSE Min2(k, ALen(a))
  IN Cardinality({x \in DOMAIN a : x < stop /\ a[x] # Inf})

\* the fallback index without its - 1: the number of finite values before k
SelectIndexCount(a, k) ==
  IF At(a, k) # Inf THEN k ELSE Max2(0, FiniteBefore(a, k))

\* lines 124-127 of _select_P_ABBA_value for an index that can be read: the
\* index whose value is returned
SelectIndex(a, k) ==
  IF At(a, k) # Inf THEN k ELSE Max2(0, FiniteBefore(a, k) - 1)

\* lines 209-225 as one value: what a call _mpdist(T_A, T_B, m, percentage, k)
\* ends with, k_given telling whether k was passed
MPdistResult(T_A, T_B, m, pnum, k_given, k_arg) ==
  LET P_ABBA == Sorted(_compute_P_ABBA(T_A, T_B, m))
      k == IF k_given THEN k_arg
           ELSE MPPercentageK(MPClamp(pnum), ALen(T_A), ALen(T_B), m)
  IN IF InBounds(P_ABBA, k)
     THEN [pc |-> "done", MPdist |-> At(P_ABBA, SelectIndex(P_ABBA, k))]
     ELSE [pc |-> "IndexError", MPdist |-> 0]

\* the 0/1 series mpdist is given
MPSeries == UNION {[0..(len - 1) -> TVals] : len \in 3..MaxNAB}

\* ------------------------------------------------------------ ScrimpEngine
\* the merge's comparison as !=: the round's value overwrites the running one
MergeTakesAnyChange(o, p) == o # p

\* lines 446 and 464: out[i] takes (P[i], I[i]) when out[i, 0] > P[i]
MergeTakes(o, p) == o > p

\* lines 445-448 and 463-466
Merge(o, r) ==
  [P |-> [i \in DOMAIN o.P |-> IF MergeTakes(o.P[i], r.P[i]) THEN r.P[i] ELSE o.P[i]],
   I |-> [i \in DOMAIN o.I |-> IF MergeTakes(o.P[i], r.P[i]) THEN r.I[i] ELSE o.I[i]]]

\* lines 452-453
ClampPercentage(pnum) == Max2(Min2(pnum, PctDen), 0)

\* the number of rounds rounded down: int(1.0 / percentage)
GeneratorRoundsFloor(percentage) == PctDen \div percentage

\* line 454: int(np.ceil(1.0 / percentage)), for percentage > 0
GeneratorRounds(percentage) == CeilDiv(PctDen, percentage)

\* the next start taken from the first worker's row alone
MaxStopOfFirstRow(orders_ranges) == orders_ranges[0][2]

\* line 460: orders_ranges[:, 1].max()
MaxStop(orders_ranges) ==
  CHOOSE x \in {orders_ranges[t][2] : t \in DOMAIN orders_ranges} :
    \A t \in DOMAIN orders_ranges : orders_ranges[t][2] <= x

\* line 468, yield out: the generator hands out the array out itself
YieldedObject == "out"

\* the ranges a worker can find where orders_ranges has no row
Garbage(len) == {<<a, b>> : a \in 0..len, b \in 0..len}

\* the ranges the n_workers workers of _scrimp read at lines 259-260.  A
\* worker whose thread_idx is a row of orders_ranges reads that row.  One
\* beyond the rows reads out of bounds, which the compiled code does not
\* check: it gets whatever the memory holds.
RowsRead(orders_ranges, n_workers, len) ==
  {[t \in 0..(n_workers - 1) |->
      IF t \in DOMAIN orders_ranges THEN orders_ranges[t] ELSE g[t]] :
     g \in [(0..(n_workers - 1)) \ DOMAIN orders_ranges -> Garbage(len)]}

\* line 425: T.ndim != 1 raises ValueError
OneDimensional(d) == d = 1

\* core.check_window_size(m), line 428: a window shorter than 3 is refused
check_window_size(w) == w >= 3

VARIABLES
  T, m, percentage_in, prescrimp, s, NUM_THREADS,   \* the call and the configuration
  ndim,                \* T.ndim; T holds a 2-dimensional array flattened
  pc,                  \* created, prescrimp, setup, running, done, error,
                       \* invalid_shape, invalid_window; off
  mu, sigma,           \* line 436
  out,                 \* the contents of the array out
  pre, pre_left,       \* _prescrimp: its table, the sampled rows still to visit
  orders, n_threads, percentage, generator_rounds, round, start,
  ranges_log,          \* for every round run: the rows of line 457 and the
                       \* number of workers of line 459
  yielded,             \* the objects yielded so far, in order
  seen,                \* what each yielded item held when it was yielded
  red,                 \* one call of _scrimp, thread by thread
  part,                \* one call of _get_orders_ranges
  mp                   \* one call of _mpdist

callVars == <<T, m, percentage_in, prescrimp, s, NUM_THREADS, ndim>>
loopVars == <<orders, n_threads, percentage, generator_rounds, round, start,
              ranges_log>>
vars == <<T, m, percentage_in, prescrimp, s, NUM_THREADS, ndim, pc, mu, sigma, out,
          pre, pre_left, orders, n_threads, percentage, generator_rounds,
          round, start, ranges_log, yielded, seen, red, part, mp>>
others == <<red, part, mp>>

n == Cardinality(DOMAIN T)
l == n - m + 1
excl_zone == ExclZone(m)

\* what an object holds now
Contents(obj) == IF obj = "out" THEN out ELSE EmptyOut(l)

\* the series scrimp is given: long enough for one diagonal at least.  A 0/1
\* series and its complement have the same window distances (QT - mu_i mu_j
\* and sigma are the same for both) and so the same profiles: the series that
\* start with 0 stand for all.
SeriesOf(w) ==
  UNION {{f \in [0..(len - 1) -> TVals] : f[0] = 0} :
           len \in (w + ExclZone(w) + 1)..MaxN}

\* the generator object that the call scrimp(T, m, percentage, prescrimp, s)
\* returns: scrimp is a generator function, none of its body has run
Init ==
  /\ m \in Windows \cup BadWindows
  /\ ndim \in NDims
  /\ T \in SeriesOf(m)
  /\ percentage_in \in PctNums
  /\ prescrimp \in BOOLEAN
  /\ s \in {ExclZone(m), ExclZone(m) + 1}
  /\ (~prescrimp => s = ExclZone(m))
  /\ NUM_THREADS \in 1..MaxThreads
  /\ pc = "created"
  /\ mu = <<>>
  /\ sigma = <<>>
  /\ out = EmptyOut(Cardinality(DOMAIN T) - m + 1)
  /\ pre = EmptyOut(Cardinality(DOMAIN T) - m + 1)
  /\ pre_left = {}
  /\ orders = <<>>
  /\ n_threads = 0
  /\ percentage = 0
  /\ generator_rounds = 0
  /\ round = 0
  /\ start = 0
  /\ ranges_log = <<>>
  /\ yielded = <<>>
  /\ seen = <<>>
  /\ red = <<>>
  /\ part = <<>>
  /\ mp = <<>>

\* the first next() runs the body from its top: lines 420-441, with the
\* checks of lines 425-428
Start ==
  /\ pc = "created"
  /\ IF ~OneDimensional(ndim)
     THEN pc' = "invalid_shape" /\ UNCHANGED <<mu, sigma, out, pre, pre_left>>
     ELSE IF ~check_window_size(m)
     THEN pc' = "invalid_window" /\ UNCHANGED <<mu, sigma, out, pre, pre_left>>
     ELSE /\ mu' = MeanStd(T, m).mu
          /\ sigma' = MeanStd(T, m).sigma
          /\ out' = EmptyOut(l)
          /\ pre' = EmptyOut(l)
          /\ pre_left' = IF prescrimp THEN SampleRows(l, s) ELSE {}
          /\ pc' = IF prescrimp THEN "prescrimp" ELSE "setup"
  /\ UNCHANGED <<others, callVars, loopVars, yielded, seen>>

\* one iteration of the loop of _prescrimp (line 326); the rows come in the
\* order of a random permutation, that is in any order
PreStep ==
  /\ pc = "prescrimp"
  /\ \E i \in pre_left :
       /\ pre' = PreIteration(T, m, mu, sigma, s, i, pre)
       /\ pre_left' = pre_left \ {i}
  /\ UNCHANGED <<others, callVars, loopVars, pc, mu, sigma, out, yielded, seen>>

\* _prescrimp returns and its result is dropped
PreMergeSkipped ==
  /\ pc = "prescrimp"
  /\ pre_left = {}
  /\ pc' = "setup"
  /\ UNCHANGED <<others, callVars, loopVars, mu, sigma, out, pre, pre_left, yielded, seen>>

\* _prescrimp returns (line 374) and its result is merged: lines 445-448
PreMerge ==
  /\ pc = "prescrimp"
  /\ pre_left = {}
  /\ out' = Merge(out, PreResult(pre))
  /\ pc' = "setup"
  /\ UNCHANGED <<others, callVars, loopVars, mu, sigma, pre, pre_left, yielded, seen>>

\* lines 450-455
Setup ==
  /\ pc = "setup"
  /\ orders' \in OrdersOf(n, m)
  /\ n_threads' = NUM_THREADS
  /\ percentage' = ClampPercentage(percentage_in)
  /\ IF ClampPercentage(percentage_in) = 0
     THEN /\ pc' = "error"       \* 1.0 / percentage: ZeroDivisionError
          /\ generator_rounds' = 0
     ELSE /\ pc' = "running"
          /\ generator_rounds' = GeneratorRounds(ClampPercentage(percentage_in))
  /\ UNCHANGED <<others, callVars, mu, sigma, out, pre, pre_left, round, start,
                 ranges_log, yielded, seen>>

\* one iteration of the loop, up to its yield: lines 456-468.  The rows come
\* from n_threads, read once at line 451; _scrimp launches as many workers as
\* config.NUMBA_NUM_THREADS says when it is called (line 244).  With more
\* workers than rows, a build that checks bounds raises IndexError at line
\* 259; any other lets the worker walk what it read.
Round ==
  /\ pc = "running"
  /\ round < generator_rounds
  /\ LET orders_ranges == _get_orders_ranges(n_threads, m, n, orders, start, percentage)
     IN \/ /\ NUM_THREADS > ALen(orders_ranges)
           /\ pc' = "IndexError"
           /\ UNCHANGED <<out, seen, yielded, round, start, ranges_log>>
        \/ \E rows \in RowsRead(orders_ranges, NUM_THREADS, ALen(orders)) :
             /\ start' = MaxStop(orders_ranges)
             /\ out' = Merge(out, _scrimp(T, m, mu, sigma, orders, rows,
                                          excl_zone, NUM_THREADS))
             /\ seen' = Append(seen, out')
             /\ ranges_log' = Append(ranges_log, [orders_ranges |-> orders_ranges,
                                                  n_workers |-> NUM_THREADS])
             /\ yielded' = Append(yielded, YieldedObject)
             /\ round' = round + 1
             /\ pc' = pc
  /\ UNCHANGED <<others, callVars, mu, sigma, pre, pre_left, orders, n_threads,
                 percentage, generator_rounds>>

\* the loop ends: StopIteration
Finish ==
  /\ pc = "running"
  /\ round >= generator_rounds
  /\ pc' = "done"
  /\ UNCHANGED <<others, callVars, loopVars, mu, sigma, out, pre, pre_left, yielded, seen>>

Next == Start \/ PreStep \/ PreMerge \/ Setup \/ Round \/ Finish

Spec == Init /\ [][Next]_vars

\* ------------------------- a run with the thread count set anew at a yield
\* the consumer assigns config.NUMBA_NUM_THREADS while the generator is
\* suspended at its yield (line 468); it does so once in a run
Reconfigure ==
  /\ pc = "running"
  /\ round >= 1
  /\ round < generator_rounds
  /\ NUM_THREADS = n_threads
  /\ NUM_THREADS' \in (1..MaxThreads) \ {NUM_THREADS}
  /\ UNCHANGED <<T, m, percentage_in, prescrimp, s, ndim, others, loopVars, pc,
                 mu, sigma, out, pre, pre_left, yielded, seen>>

InitCfg ==
  /\ m \in Windows
  /\ ndim = 1
  /\ T \in {f \in [0..(CfgN - 1) -> TVals] : f[0] = 0}
  /\ percentage_in \in 1..PctDen
  /\ prescrimp = FALSE
  /\ s = ExclZone(m)
  /\ NUM_THREADS \in 1..MaxThreads
  /\ pc = "created"
  /\ mu = <<>>
  /\ sigma = <<>>
  /\ out = EmptyOut(Cardinality(DOMAIN T) - m + 1)
  /\ pre = EmptyOut(Cardinality(DOMAIN T) - m + 1)
  /\ pre_left = {}
  /\ orders = <<>>
  /\ n_threads = 0
  /\ percentage = 0
  /\ generator_rounds = 0
  /\ round = 0
  /\ start = 0
  /\ ranges_log = <<>>
  /\ yielded = <<>>
  /\ seen = <<>>
  /\ red = <<>>
  /\ part = <<>>
  /\ mp = <<>>

NextCfg == Start \/ Setup \/ Round \/ Reconfigure \/ Finish

SpecCfg == InitCfg /\ [][NextCfg]_vars

\* --------------------------- PreSCRIMP on a series of more sampled rows
\* scrimp(T, m, prescrimp=True, s=s) up to the return of _prescrimp, on a
\* series long enough for an extension to reach another sampled row
InitPre ==
  /\ m \in Windows
  /\ ndim = 1
  /\ T \in {f \in [0..(PreN - 1) -> TVals] : f[0] = 0}
  /\ percentage_in = PctDen
  /\ prescrimp = TRUE
  /\ s \in 1..PreMaxS
  /\ NUM_THREADS = 1
  /\ pc = "created"
  /\ mu = <<>>
  /\ sigma = <<>>
  /\ out = EmptyOut(Cardinality(DOMAIN T) - m + 1)
  /\ pre = EmptyOut(Cardinality(DOMAIN T) - m + 1)
  /\ pre_left = {}
  /\ orders = <<>>
  /\ n_threads = 0
  /\ percentage = 0
  /\ generator_rounds = 0
  /\ round = 0
  /\ start = 0
  /\ ranges_log = <<>>
  /\ yielded = <<>>
  /\ seen = <<>>
  /\ red = <<>>
  /\ part = <<>>
  /\ mp = <<>>

NextPre == Start \/ PreStep \/ PreMerge

SpecPre == InitPre /\ [][NextPre]_vars

\* ------------------------- scrimp run in whole rounds or in half rounds
\* scrimp(T, m, percentage, prescrimp, s) on valid arguments, with the
\* percentage that runs every diagonal in one round or about half of them
\* in each round
InitProf ==
  /\ m \in Windows
  /\ ndim = 1
  /\ T \in SeriesOf(m)
  /\ percentage_in \in {PctDen \div 2, PctDen}
  /\ prescrimp \in BOOLEAN
  /\ s \in {ExclZone(m), ExclZone(m) + 1}
  /\ (~prescrimp => s = ExclZone(m))
  /\ NUM_THREADS \in 1..MaxThreads
  /\ pc = "created"
  /\ mu = <<>>
  /\ sigma = <<>>
  /\ out = EmptyOut(Cardinality(DOMAIN T) - m + 1)
  /\ pre = EmptyOut(Cardinality(DOMAIN T) - m + 1)
  /\ pre_left = {}
  /\ orders = <<>>
  /\ n_threads = 0
  /\ percentage = 0
  /\ generator_rounds = 0
  /\ round = 0
  /\ start = 0
  /\ ranges_log = <<>>
  /\ yielded = <<>>
  /\ seen = <<>>
  /\ red = <<>>
  /\ part = <<>>
  /\ mp = <<>>

SpecProf == InitProf /\ [][Next]_vars

\* ------------------------------------------ one call of the partitioner
\* the generator is not running: a helper is called on its own
GeneratorOff ==
  /\ T = <<>>
  /\ m \in Windows
  /\ percentage_in = 0
  /\ prescrimp = FALSE
  /\ s = 0
  /\ NUM_THREADS = 1
  /\ ndim = 1
  /\ pc = "off"
  /\ mu = <<>>
  /\ sigma = <<>>
  /\ out = EmptyOut(0)
  /\ pre = EmptyOut(0)
  /\ pre_left = {}
  /\ orders = <<>>
  /\ n_threads = 0
  /\ percentage = 0
  /\ generator_rounds = 0
  /\ round = 0
  /\ start = 0
  /\ ranges_log = <<>>
  /\ yielded = <<>>
  /\ seen = <<>>

\* the arguments of a call _get_orders_ranges(n_split, m, n, orders, start,
\* percentage): a permutation of the diagonals of a series of length len, a
\* start in [0, len(orders)]
PartCalls(len, splits, starts, pnums) ==
  {[pc |-> "called", n |-> len, m |-> 3, orders |-> o, start |-> b, pnum |-> p,
    n_split |-> k, mo |-> <<0, 0>>, st |-> <<>>] :
     o \in OrdersOf(len, 3), b \in starts, p \in pnums, k \in splits}

InitPart ==
  /\ GeneratorOff
  /\ red = <<>>
  /\ mp = <<>>
  /\ \/ \E len \in 5..MaxPartN :
          part \in PartCalls(len, 1..MaxSplit, 0..(len - 3), PctNums)
     \/ part \in PartCalls(BalN, BalSplits, {0}, {PctDen})

\* the call runs: lines 97-121, with _get_max_order_idx (lines 46-60)
PartCall ==
  /\ part.pc = "called"
  /\ part' = [part EXCEPT
       !.pc = "returned",
       !.mo = _get_max_order_idx(part.m, part.n, part.orders, part.start, part.pnum),
       !.st = RangesState(part.n_split, part.m, part.n, part.orders, part.start,
                          part.pnum)]
  /\ UNCHANGED <<callVars, loopVars, pc, mu, sigma, out, pre, pre_left, yielded,
                 seen, red, mp>>

NextPart == PartCall

SpecPart == InitPart /\ [][NextPart]_vars

\* --------------------------------- one call of _get_max_order_idx alone
\* the arguments of a call _get_max_order_idx(m, n, orders, start,
\* percentage): orders is np.random.permutation(range(excl_zone + 1,
\* n - m + 2)) of line 450, which is empty for a series as long as its window
InitIdx ==
  /\ GeneratorOff
  /\ red = <<>>
  /\ mp = <<>>
  /\ \E len \in 3..MaxIdxN : \E o \in OrdersOf(len, 3) :
       part \in {[pc |-> "called", n |-> len, m |-> 3, orders |-> o, start |-> b,
                  pnum |-> p, n_split |-> 1, mo |-> <<0, 0>>, st |-> <<>>] :
                   b \in 0..ALen(o), p \in PctNums}

\* the call runs: lines 46-60
IdxCall ==
  /\ part.pc = "called"
  /\ \E r \in MaxOrderIdxOutcomes(part.m, part.n, part.orders, part.start, part.pnum) :
       part' = [part EXCEPT
         !.pc = IF r.raised THEN "UnboundLocalError" ELSE "returned",
         !.mo = r.value]
  /\ UNCHANGED <<callVars, loopVars, pc, mu, sigma, out, pre, pre_left, yielded,
                 seen, red, mp>>

NextIdx == IdxCall

SpecIdx == InitIdx /\ [][NextIdx]_vars

\* ------------------------------------- one call of _scrimp, step by step
\* _scrimp is called by scrimp alone (line 461), with the ranges that
\* _get_orders_ranges gave it at line 457 for the round's percentage
InitRed ==
  /\ m \in Windows
  /\ T \in SeriesOf(m)
  /\ mu = MeanStd(T, m).mu
  /\ sigma = MeanStd(T, m).sigma
  /\ orders \in OrdersOf(n, m)
  /\ NUM_THREADS \in 1..RedThreads
  /\ ndim = 1
  /\ percentage_in = 0
  /\ prescrimp = FALSE
  /\ s = 0
  /\ pc = "off"
  /\ out = EmptyOut(0)
  /\ pre = EmptyOut(0)
  /\ pre_left = {}
  /\ n_threads = 0
  /\ percentage = 0
  /\ generator_rounds = 0
  /\ round = 0
  /\ start = 0
  /\ ranges_log = <<>>
  /\ yielded = <<>>
  /\ seen = <<>>
  /\ part = <<>>
  /\ mp = <<>>
  /\ \E pnum \in 1..PctDen :
       red = [pc |-> "walk",
              orders_ranges |->
                _get_orders_ranges(NUM_THREADS, m, n, orders, 0, pnum),
              tab |-> EmptyTable(NUM_THREADS, l),
              pos |-> [t \in 0..(NUM_THREADS - 1) |->
                        _get_orders_ranges(NUM_THREADS, m, n, orders, 0,
                                           pnum)[t][1]],
              thread_idx |-> 1,
              result |-> EmptyOut(l)]

\* thread t walks the next diagonal of its range: one iteration of the outer
\* loop of _compute_diagonal (lines 171-189), called at lines 253-265
WorkerStep(t) ==
  /\ red.pc = "walk"
  /\ red.pos[t] < red.orders_ranges[t][2]
  /\ red' = [red EXCEPT
       !.tab = _compute_diagonal(T, m, mu, sigma, orders, red.pos[t],
                                 red.pos[t] + 1, excl_zone, t, red.tab),
       !.pos[t] = red.pos[t] + 1]
  /\ UNCHANGED <<callVars, loopVars, pc, mu, sigma, out, pre, pre_left, yielded,
                 seen, part, mp>>

\* the prange loop of line 251 ends when every thread has walked its range
Join ==
  /\ red.pc = "walk"
  /\ \A t \in DOMAIN red.pos : red.pos[t] >= red.orders_ranges[t][2]
  /\ red' = [red EXCEPT !.pc = "reduce", !.thread_idx = 1]
  /\ UNCHANGED <<callVars, loopVars, pc, mu, sigma, out, pre, pre_left, yielded,
                 seen, part, mp>>

\* one iteration of the loop of line 268
ReduceStep ==
  /\ red.pc = "reduce"
  /\ red.thread_idx < NUM_THREADS
  /\ red' = [red EXCEPT !.tab = ReduceThread(red.tab, red.thread_idx),
                        !.thread_idx = red.thread_idx + 1]
  /\ UNCHANGED <<callVars, loopVars, pc, mu, sigma, out, pre, pre_left, yielded,
                 seen, part, mp>>

\* line 274
Return ==
  /\ red.pc = "reduce"
  /\ red.thread_idx >= NUM_THREADS
  /\ red' = [red EXCEPT !.pc = "done", !.result = ScrimpResult(red.tab)]
  /\ UNCHANGED <<callVars, loopVars, pc, mu, sigma, out, pre, pre_left, yielded,
                 seen, part, mp>>

NextRed == (\E t \in 0..(NUM_THREADS - 1) : WorkerStep(t)) \/ Join \/ ReduceStep \/ Return

SpecRed == InitRed /\ [][NextRed]_vars

\* ------------------------------------------------- one call of _mpdist
InitMP ==
  /\ GeneratorOff
  /\ red = <<>>
  /\ part = <<>>
  /\ \E A \in MPSeries, B \in MPSeries :
       \E arg \in {<<p, FALSE, 0>> : p \in PctNums}
                    \cup {<<1, TRUE, k>> : k \in (0 - 1)..(ALen(A) + ALen(B))} :
         mp = [pc |-> "called", T_A |-> A, T_B |-> B, m |-> 3,
               pnum |-> arg[1], k_given |-> arg[2], k_arg |-> arg[3],
               P_ABBA |-> <<>>, k |-> 0, k_read |-> 0, MPdist |-> 0]

\* lines 209-214
MPJoin ==
  /\ mp.pc = "called"
  /\ mp' = [mp EXCEPT !.pc = "joined",
                      !.P_ABBA = Sorted(_compute_P_ABBA(mp.T_A, mp.T_B, mp.m))]
  /\ UNCHANGED <<callVars, loopVars, pc, mu, sigma, out, pre, pre_left, yielded,
                 seen, red, part>>

\* lines 216-221
MPChooseK ==
  /\ mp.pc = "joined"
  /\ mp' = [mp EXCEPT
       !.pc = "chosen",
       !.k = IF mp.k_given THEN mp.k_arg
             ELSE MPPercentageK(MPClamp(mp.pnum), ALen(mp.T_A), ALen(mp.T_B), mp.m)]
  /\ UNCHANGED <<callVars, loopVars, pc, mu, sigma, out, pre, pre_left, yielded,
                 seen, red, part>>

\* line 223, _select_P_ABBA_value (lines 121-129), and line 225
MPSelect ==
  /\ mp.pc = "chosen"
  /\ IF InBounds(mp.P_ABBA, mp.k)
     THEN mp' = [mp EXCEPT !.pc = "done",
                           !.k_read = SelectIndex(mp.P_ABBA, mp.k),
                           !.MPdist = At(mp.P_ABBA, SelectIndex(mp.P_ABBA, mp.k))]
     ELSE mp' = [mp EXCEPT !.pc = "IndexError"]
  /\ UNCHANGED <<callVars, loopVars, pc, mu, sigma, out, pre, pre_left, yielded,
                 seen, red, part>>

NextMP == MPJoin \/ MPChooseK \/ MPSelect

SpecMP == InitMP /\ [][NextMP]_vars

\* ------------------------------------------------- the exhaustive profile
\* the windows j allowed as a match of i: |i - j| > excl_zone
Allowed(i) == {j \in 0..(l - 1) : Abs(i - j) > excl_zone}

\* the distance of windows i and j, from a direct dot product and the
\* statistics of the run (line 436)
Distance(i, j) == Sqrt(MassSq(T, m, mu, sigma, i, j))

\* the smallest distance of window i to an allowed window, +inf when none is
NearestDistance(i) ==
  LET ds == {Distance(i, j) : j \in Allowed(i)} \cup {Inf}
  IN CHOOSE d \in ds : \A e \in ds : d <= e

\* profile prof is the profile of an all-pairs computation
IsExact(prof) ==
  \A i \in 0..(l - 1) :
    /\ prof.P[i] = NearestDistance(i)
    /\ IF prof.P[i] = Inf THEN prof.I[i] = 0 - 1
       ELSE prof.I[i] \in Allowed(i) /\ Distance(i, prof.I[i]) = prof.P[i]

\* ------------------------------------------------------------------ claims

\* C1: the running profile only improves: at every step of the generator (the
\* PreSCRIMP merge and every round) and every position i, the new P[i] is at
\* most the old one, and the entry (P[i], I[i]) changes only when the new
\* distance is strictly smaller.
C1_MonotonicImprovement ==
  [][\A i \in DOMAIN out.P :
       /\ out'.P[i] <= out.P[i]
       /\ (out'.P[i] # out.P[i] \/ out'.I[i] # out.I[i]) => out'.P[i] < out.P[i]]_vars

\* a later round improved an entry of an earlier item, and left another alone
C1_Witness ==
  \E r \in 2..Len(seen) : \E i, j \in DOMAIN out.P :
    /\ seen[r].P[i] < seen[r - 1].P[i]
    /\ seen[r].P[j] = seen[r - 1].P[j] /\ seen[r].P[j] < Inf

\* C2: in every yielded profile, with PreSCRIMP or without, a recorded match
\* lies outside the exclusion zone: I[i] # -1 => |I[i] - i| > ceil(m / 4).
C2_SelfMatchExclusion ==
  \A r \in 1..Len(seen) : \A i \in DOMAIN seen[r].I :
    seen[r].I[i] # 0 - 1 => Abs(seen[r].I[i] - i) > CeilDiv(m, 4)

\* a yielded profile seeded by PreSCRIMP records, for some i, a match farther
\* than a window of its exclusion zone that is strictly nearer
C2_Witness ==
  /\ prescrimp
  /\ \E r \in 1..Len(seen) : \E i, j \in DOMAIN out.P :
       /\ seen[r].I[i] # 0 - 1
       /\ j # i /\ Abs(i - j) <= excl_zone
       /\ Distance(i, j) < seen[r].P[i]

\* C3: with percentage = 1.0 and PreSCRIMP off, the profile yielded once every
\* diagonal has been walked is the profile of an all-pairs computation, for
\* every permutation and every number of threads.
C3_ConvergenceToExact ==
  (~prescrimp /\ percentage = PctDen /\ Len(seen) >= 1 /\ start = ALen(orders))
    => IsExact(seen[Len(seen)])

\* an exact profile with a finite entry, from a walk split over two threads
C3_Witness ==
  /\ ~prescrimp /\ percentage = PctDen /\ Len(seen) = 1 /\ n_threads >= 2
  /\ start = ALen(orders)
  /\ \E i \in DOMAIN out.P : seen[1].P[i] < Inf /\ seen[1].P[i] > 0
  /\ \E i \in DOMAIN out.P : seen[1].P[i] = Inf

\* C5: every yielded item is a copy of its own: what an item held when it was
\* yielded is what it holds after any later round.
C5_SnapshotIndependence ==
  \A r \in 1..Len(yielded) : Contents(yielded[r]) = seen[r]

RoundsNeeded == CHOOSE r \in 1..PctDen : r * percentage >= PctDen /\ (r - 1) * percentage < PctDen

Rows == part.st.orders_ranges
PartStop == part.mo[1]
PartTotal == part.mo[2]

\* the number of distances of the diagonals of row t
RowCount(t) == SumDist(part.m, part.n, part.orders, Rows[t][1], Rows[t][2])

\* the length of the diagonal at index x of the permutation
DiagLen(x) == part.n - part.m + 2 - part.orders[x]

\* the length of the longest diagonal there is: that of k = excl_zone + 1
LongestDiagonal == part.n - part.m + 2 - (ExclZone(part.m) + 1)

\* C7 as claimed: the n_split rows are contiguous from start to stop, the rows
\* left over when fewer than n_split - 1 cuts are made included.
C7_AllRowsContiguous ==
  part.pc = "returned" =>
    /\ DOMAIN Rows = 0..(part.n_split - 1)
    /\ Rows[0][1] = part.start
    /\ \A t \in 1..(part.n_split - 1) : Rows[t][1] = Rows[t - 1][2]
    /\ Rows[part.n_split - 1][2] = PartStop

\* C7 as amended: n_split rows are returned; the rows up to the one written
\* after the loop (row ranges_idx) are contiguous, ascending and cover
\* [start, stop) with stop the index of _get_max_order_idx; every row after it
\* is left [0, 0].
C7_ContiguousUpToFinalRow ==
  part.pc = "returned" =>
    /\ DOMAIN Rows = 0..(part.n_split - 1)
    /\ part.st.ranges_idx \in 0..(part.n_split - 1)
    /\ Rows[0][1] = part.start
    /\ \A t \in 1..part.st.ranges_idx : Rows[t][1] = Rows[t - 1][2]
    /\ \A t \in 0..part.st.ranges_idx : Rows[t][1] <= Rows[t][2]
    /\ Rows[part.st.ranges_idx][2] = PartStop
    /\ \A t \in (part.st.ranges_idx + 1)..(part.n_split - 1) : Rows[t] = <<0, 0>>

\* a call from a start > 0 that made a cut and left its last row [0, 0]
C7_Witness ==
  /\ part.pc = "returned"
  /\ part.start > 0
  /\ part.st.ranges_idx >= 1
  /\ part.st.ranges_idx < part.n_split - 1
  /\ Rows[part.n_split - 1] = <<0, 0>>
  /\ Rows[0][2] > Rows[0][1]

\* C8 as claimed: with 4 workers, every worker's count differs from total / 4
\* by at most the length of one diagonal (here: of the longest diagonal).
C8_WithinOneDiagonal ==
  (part.pc = "returned" /\ part.n_split = 4) =>
    \A t \in 0..3 : Abs(4 * RowCount(t) - PartTotal) <= 4 * LongestDiagonal

\* C8 as amended: with 4 workers, a row closed by a cut holds more than
\* total / 4 and would hold at most total / 4 without the diagonal that closed
\* it; the row written after the loop holds the remainder, between 0 and
\* total / 4; every later row holds nothing; the counts add up to the total.
C8_BalancedFromAbove ==
  (part.pc = "returned" /\ part.n_split = 4) =>
    /\ \A t \in 0..3 :
         IF t < part.st.ranges_idx
         THEN /\ 4 * RowCount(t) > PartTotal
              /\ 4 * (RowCount(t) - DiagLen(Rows[t][2] - 1)) <= PartTotal
         ELSE IF t = part.st.ranges_idx
         THEN 0 <= RowCount(t) /\ 4 * RowCount(t) <= PartTotal
         ELSE RowCount(t) = 0
    /\ RowCount(0) + RowCount(1) + RowCount(2) + RowCount(3) = PartTotal

\* a whole permutation split in four where the last worker is written and is
\* short of total / 4 by more than the longest diagonal
C8_Witness ==
  /\ part.pc = "returned" /\ part.n_split = 4
  /\ part.start = 0 /\ PartStop = ALen(part.orders)
  /\ part.st.ranges_idx = 3
  /\ 4 * RowCount(3) + 4 * LongestDiagonal < PartTotal

\* the count accumulated from start up to and including index x
CountUpTo(x) == SumDist(part.m, part.n, part.orders, part.start, x + 1)

\* the indices x >= start at which CountUpTo(x) / total exceeds the percentage
ExceedsAt(total) ==
  {x \in part.start..(ALen(part.orders) - 1) :
     CountUpTo(x) * PctDen > part.pnum * total}

\* what _get_max_order_idx returns when the fraction is taken of total: the
\* index after the first diagonal that exceeds, and the count up to it; the
\* length of orders and the count of all of orders[start:] when none exceeds
StopFor(total) ==
  IF ExceedsAt(total) = {} THEN ALen(part.orders)
  ELSE 1 + CHOOSE x \in ExceedsAt(total) : \A y \in ExceedsAt(total) : x <= y

\* C13 as claimed: the fraction compared with the percentage is the count
\* accumulated from start divided by the total over orders[start:].
C13_FractionOfRemaining ==
  part.pc = "returned" =>
    LET remaining == SumDist(part.m, part.n, part.orders, part.start,
                             ALen(part.orders))
    IN /\ PartStop = StopFor(remaining)
       /\ PartTotal = CountUpTo(PartStop - 1)

\* C13 as amended: the fraction is the count accumulated from start divided
\* by the total over all of orders, whatever start is; the call returns the
\* index after the first diagonal at or after start at which it exceeds the
\* percentage and the count up to that diagonal, and the length of orders
\* with the count of orders[start:] when there is none.
C13_FractionOfWhole ==
  part.pc = "returned" =>
    LET whole == SumDist(part.m, part.n, part.orders, 0, ALen(part.orders))
    IN /\ PartStop = StopFor(whole)
       /\ PartTotal = CountUpTo(PartStop - 1)

\* a call from a start > 0 that stopped before the end of orders, later than
\* the fraction of the remaining diagonals would have stopped it
C13_Witness ==
  /\ part.pc = "returned"
  /\ part.start > 0
  /\ PartStop < ALen(part.orders)
  /\ PartStop >
       StopFor(SumDist(part.m, part.n, part.orders, part.start, ALen(part.orders)))

\* -------------------------------------------------- claims on the reducer
\* stop: the largest end among the workers' ranges
SequentialStop ==
  CHOOSE e \in {red.orders_ranges[t][2] : t \in DOMAIN red.orders_ranges} :
    \A t \in DOMAIN red.orders_ranges : red.orders_ranges[t][2] <= e

\* what one worker returns that walks the whole range [0, stop) on its own
SequentialResult ==
  _scrimp(T, m, mu, sigma, orders,
          [t \in {0} |-> <<0, SequentialStop>>],
          excl_zone, 1)

\* C4: whatever ranges the partitioner splits the diagonals of [0, stop) into
\* and however the workers' steps interleave, the table reduced into slot
\* 0 is the table of one worker walking [0, stop) sequentially: P and I alike.
C4_ReductionCorrectness ==
  red.pc = "done" => red.result = SequentialResult

\* a reduction that met a tie: two workers or more, and a position where a
\* later worker found the same distance as the result with another index
C4_Witness ==
  /\ red.pc = "done"
  /\ NUM_THREADS >= 2
  /\ \E i \in 0..(l - 1) : \E t \in 1..(NUM_THREADS - 1) :
       /\ red.tab.P[t][i] < Inf
       /\ Sqrt(red.tab.P[t][i]) = red.result.P[i]
       /\ red.tab.I[t][i] # red.result.I[i]

\* --------------------------------------------------- claims on MPdist
\* the length of P_ABBA
MPLength == (ALen(mp.T_A) - mp.m + 1) + (ALen(mp.T_B) - mp.m + 1)

\* the call has ended, with a value or with an error
MPEnded == mp.pc \in {"done", "IndexError"}

\* C9 as claimed: a call with an explicit k at or beyond the length of P_ABBA
\* uses the index length - 1 and returns a value.
C9_ExplicitKClamped ==
  (MPEnded /\ mp.k_given /\ mp.k_arg >= MPLength) =>
    (mp.pc = "done" /\ mp.k = MPLength - 1)

\* C10: when k is not given, the index is the least integer not below
\* p' * (n_A + n_B), capped at length - 1, where p' is the percentage brought
\* into [0, 1]; it lies in 0..length - 1 and the call returns a value.
C10_PercentageClamped ==
  (MPEnded /\ ~mp.k_given) =>
    LET p == IF mp.pnum < 0 THEN 0 ELSE IF mp.pnum > PctDen THEN PctDen ELSE mp.pnum
        x == p * (ALen(mp.T_A) + ALen(mp.T_B))
    IN /\ mp.pc = "done"
       /\ mp.k \in 0..(MPLength - 1)
       /\ \E c \in 0..(ALen(mp.T_A) + ALen(mp.T_B)) :
            /\ (c - 1) * PctDen < x /\ x <= c * PctDen
            /\ mp.k = IF c < MPLength - 1 THEN c ELSE MPLength - 1

\* calls that ended without k: one with a percentage above 1 that used the cap
\* length - 1 (below ceil(n_A + n_B)), or one with a percentage below 0 that
\* used index 0
C10_Witness ==
  /\ mp.pc = "done" /\ ~mp.k_given
  /\ \/ mp.pnum > PctDen /\ mp.k = MPLength - 1 /\ MPLength >= 3
     \/ mp.pnum < 0 /\ mp.k = 0 /\ MPLength >= 3

\* the finite values of P_ABBA at or before index k
FinitePrefix(k) == {x \in 0..k : mp.P_ABBA[x] # Inf}

\* C11: for the sorted P_ABBA and an index k in 0..length - 1, the call returns
\* P_ABBA[k] when that is finite; otherwise it returns P_ABBA[k'] with k' =
\* max(0, (number of finite values of P_ABBA[0:k]) - 1): the largest finite
\* value at or before k when there is one, and P_ABBA[0] (no error) when there
\* is none.
C11_FinitenessFallback ==
  (MPEnded /\ mp.k \in 0..(MPLength - 1)) =>
    /\ mp.pc = "done"
    /\ \A x \in 1..(MPLength - 1) : mp.P_ABBA[x - 1] <= mp.P_ABBA[x]
    /\ IF mp.P_ABBA[mp.k] # Inf
       THEN mp.k_read = mp.k /\ mp.MPdist = mp.P_ABBA[mp.k]
       ELSE /\ mp.k_read =
                 Max2(0, Cardinality({x \in 0..(mp.k - 1) : mp.P_ABBA[x] # Inf}) - 1)
            /\ mp.MPdist = mp.P_ABBA[mp.k_read]
            /\ IF FinitePrefix(mp.k) # {}
               THEN /\ mp.MPdist # Inf
                    /\ \A x \in FinitePrefix(mp.k) : mp.P_ABBA[x] <= mp.MPdist
               ELSE mp.k_read = 0 /\ mp.MPdist = Inf

\* a call that fell back from an infinite P_ABBA[k] to a finite value two
\* places or more to its left
C11_Witness ==
  /\ mp.pc = "done" /\ mp.k \in 0..(MPLength - 1)
  /\ mp.P_ABBA[mp.k] = Inf
  /\ mp.MPdist # Inf
  /\ mp.k_read + 2 <= mp.k

\* a call whose whole prefix is infinite and that returned P_ABBA[0]
C11_WitnessNoFinite ==
  /\ mp.pc = "done" /\ mp.k \in 1..(MPLength - 1)
  /\ FinitePrefix(mp.k) = {}
  /\ mp.k_read = 0

\* ------------------------------------------------ claims on the generator
\* the arguments of the call are refused by the checks of lines 425-428
InvalidCall == ndim # 1 \/ m < 3

\* C12: a call with a T that is not 1-dimensional, or with an invalid m, fails
\* at the call: no generator object is handed out for it, so none is waiting
\* for its first next().
C12_FailFastAtConstruction == pc = "created" => ~InvalidCall

\* what does hold: the first next() of such a generator raises, and nothing
\* of PreSCRIMP or of a round has run by then
C12_FailsAtFirstNext ==
  InvalidCall =>
    /\ pc \in {"created", "invalid_shape", "invalid_window"}
    /\ pc = "invalid_window" => ndim = 1
    /\ pre = EmptyOut(Cardinality(DOMAIN T) - m + 1)
    /\ yielded = <<>>
    /\ round = 0

\* the rows of round r, the indices of orders they give worker t, and the
\* indices [start, stop) of the round
RoundRows(r) == ranges_log[r].orders_ranges
Assigned(r, t) == {x \in 0..ALen(orders) : RoundRows(r)[t][1] <= x /\ x < RoundRows(r)[t][2]}
RoundStart(r) == IF r = 1 THEN 0 ELSE MaxStop(RoundRows(r - 1))
RoundStop(r) == MaxStop(RoundRows(r))

\* C14: for every percentage in (0, 1], permutation and worker count: the rows
\* of a round are disjoint and cover [start, stop) of the round, every row has
\* its worker, the start of a round is the stop of the round before it (0 for
\* the first), so an index of orders is given to at most one worker of one
\* round, and to exactly one once the last item is yielded: every diagonal
\* has been walked by then, and the profile is that of all pairs.
C14_ExactlyOnceCoverage ==
  [](pc = "running" =>
    /\ \A r \in 1..Len(ranges_log) :
         /\ ranges_log[r].n_workers = ALen(RoundRows(r))
         /\ RoundStart(r) <= RoundStop(r) /\ RoundStop(r) <= ALen(orders)
         /\ \A t \in DOMAIN RoundRows(r) :
              0 <= RoundRows(r)[t][1] /\ RoundRows(r)[t][1] <= RoundRows(r)[t][2]
         /\ UNION {Assigned(r, t) : t \in DOMAIN RoundRows(r)}
              = {x \in 0..ALen(orders) : RoundStart(r) <= x /\ x < RoundStop(r)}
         /\ \A t, u \in DOMAIN RoundRows(r) :
              t # u => Assigned(r, t) \cap Assigned(r, u) = {}
    /\ Len(ranges_log) = round
    /\ start = IF round = 0 THEN 0 ELSE RoundStop(round)
    /\ \A x \in DOMAIN orders :
         Cardinality({rt \in (1..Len(ranges_log)) \X (0..(n_threads - 1)) :
                        /\ RoundRows(rt[1])[rt[2]][1] <= x
                        /\ x < RoundRows(rt[1])[rt[2]][2]})
           = IF x < start THEN 1 ELSE 0
    /\ round = generator_rounds => (start = ALen(orders) /\ IsExact(out)))

\* a finished run of two workers: both walked diagonals in one round, and a
\* later round walked more
C14_Witness ==
  /\ pc = "done" /\ n_threads = 2
  /\ \E r \in 1..Len(ranges_log) : \E q \in 1..Len(ranges_log) :
       /\ r < q
       /\ Assigned(r, 0) # {} /\ Assigned(r, 1) # {}
       /\ Assigned(q, 0) # {}

\* ------------------------------------------ claims on the parallel phase
\* row t of a table on its own
RowAlone(tab, t) == [P |-> [u \in {0} |-> tab.P[t]], I |-> [u \in {0} |-> tab.I[t]]]

\* the indices of orders in the range of worker t
RangeOf(t) == {x \in 0..ALen(orders) :
                 red.orders_ranges[t][1] <= x /\ x < red.orders_ranges[t][2]}

\* C15: in the parallel phase a step of worker t changes row t of the tables
\* and no other row, and what it writes depends on row t alone; the ranges of
\* two workers are disjoint; the reduction begins only when every worker has
\* walked its whole range; the tables then, and the result returned, are the
\* same whatever the interleaving was.
C15_WorkerIsolation ==
  /\ [][(red.pc = "walk" /\ red'.pc = "walk") =>
          \E t \in DOMAIN red.pos :
            /\ red'.pos = [red.pos EXCEPT ![t] = red.pos[t] + 1]
            /\ \A u \in DOMAIN red.pos \ {t} :
                 red'.tab.P[u] = red.tab.P[u] /\ red'.tab.I[u] = red.tab.I[u]
            /\ RowAlone(red'.tab, t) =
                 _compute_diagonal(T, m, mu, sigma, orders, red.pos[t],
                                   red.pos[t] + 1, excl_zone, 0,
                                   RowAlone(red.tab, t))]_vars
  /\ [](\A t, u \in DOMAIN red.pos : t # u => RangeOf(t) \cap RangeOf(u) = {})
  /\ [](red.pc \in {"reduce", "done"} =>
         \A t \in DOMAIN red.pos : red.pos[t] = Max2(red.orders_ranges[t][1],
                                                     red.orders_ranges[t][2]))
  /\ []((red.pc = "reduce" /\ red.thread_idx = 1) =>
         red.tab = WalkThreads(T, m, mu, sigma, orders, red.orders_ranges,
                               excl_zone, 0, EmptyTable(NUM_THREADS, l)))
  /\ [](red.pc = "done" =>
         red.result = _scrimp(T, m, mu, sigma, orders, red.orders_ranges,
                              excl_zone, NUM_THREADS))

\* the parallel phase under way: a later worker has recorded a match while
\* worker 0 still has a diagonal to walk, and worker 0 has recorded another
\* match for the same position
C15_Witness ==
  /\ red.pc = "walk"
  /\ NUM_THREADS >= 2
  /\ red.pos[0] < red.orders_ranges[0][2]
  /\ \E t \in 1..(NUM_THREADS - 1) : \E i \in 0..(l - 1) :
       /\ red.tab.I[t][i] # 0 - 1
       /\ red.tab.I[0][i] # 0 - 1
       /\ red.tab.I[0][i] # red.tab.I[t][i]

\* C16: in every round the rows the partitioner produced are as many as the
\* workers launched, both the thread count configured when the round began:
\* every row has a worker, and no worker reads a row that does not exist.
C16_WorkersMatchRows ==
  /\ pc # "IndexError"
  /\ \A r \in 1..Len(ranges_log) :
       ranges_log[r].n_workers = ALen(ranges_log[r].orders_ranges)

\* what does hold: the rows are as many as the thread count read once, at
\* line 451, for every round of the run
C16_RowsFromFirstRead ==
  \A r \in 1..Len(ranges_log) : ALen(ranges_log[r].orders_ranges) = n_threads

\* ------------------------------------------------- claims on tie-breaking
\* <<Distance(i, 0), ..., Distance(i, k - 1)>>
RECURSIVE DistancesFrom(_,_)
DistancesFrom(i, k) ==
  IF k = 0 THEN <<>> ELSE Append(DistancesFrom(i, k - 1), Distance(i, k - 1))

\* the pairs that the diagonals orders[0 .. stop - 1] compare position i
\* with, as (place of the diagonal in orders, row of the pair, match of i)
Met(i, stop) ==
  LET walked == {x \in 0..(stop - 1) : orders[x] - 1 > excl_zone}
  IN {<<x, i, i + (orders[x] - 1)>> : x \in {y \in walked : i + (orders[y] - 1) <= l - 1}}
       \cup {<<x, i - (orders[x] - 1), i - (orders[x] - 1)>> :
                x \in {y \in walked : i - (orders[y] - 1) >= 0}}

\* the candidates of position i, those met at a finite distance, that are at
\* the smallest distance
BestCandidates(i, stop) ==
  LET row == DistancesFrom(i, l)
      cands == {c \in Met(i, stop) : row[c[3] + 1] < Inf}
  IN {c \in cands : \A d \in cands : row[c[3] + 1] <= row[d[3] + 1]}

\* c is met before d: an earlier diagonal of the permutation (and so an
\* earlier round, an earlier worker or an earlier diagonal of one worker),
\* then an earlier row
MetBefore(c, d) == c[1] < d[1] \/ (c[1] = d[1] /\ c[2] <= d[2])

\* C17: with PreSCRIMP off, the index recorded for position i in a yielded
\* item is that of the candidate met first among those at the smallest
\* distance, in the order (round, place of the diagonal in the permutation,
\* row along the diagonal); a position no candidate reached at a finite
\* distance keeps (+inf, -1).
C17_EarliestMatchOnTie ==
  []((~prescrimp /\ pc = "running" /\ Len(seen) >= 1) =>
    \A i \in 0..(l - 1) :
      LET best == BestCandidates(i, start) IN
      IF best = {}
      THEN seen[Len(seen)].I[i] = 0 - 1 /\ seen[Len(seen)].P[i] = Inf
      ELSE \E c \in best :
             /\ \A d \in best : MetBefore(c, d)
             /\ seen[Len(seen)].I[i] = c[3]
             /\ seen[Len(seen)].P[i] = Distance(i, c[3]))

\* a position whose smallest distance was met in the first round and met
\* again, with another match, in the second
C17_Witness ==
  /\ ~prescrimp /\ Len(seen) = 2
  /\ \E i \in 0..(l - 1) : \E c, d \in BestCandidates(i, start) :
       /\ c[1] < RoundStop(1)
       /\ d[1] >= RoundStop(1)
       /\ c[3] # d[3]
       /\ seen[2].I[i] = c[3]

\* --------------------------------------------------- claims on PreSCRIMP
\* what the first round's _scrimp returned
FirstRoundResult ==
  _scrimp(T, m, mu, sigma, orders, ranges_log[1].orders_ranges, excl_zone,
          ranges_log[1].n_workers)

\* C18: with prescrimp off PreSCRIMP never runs.  With it on, PreSCRIMP runs
\* once: its table changes only before the first round, every sampled row is
\* visited before the permutation is drawn, and what it returns is merged
\* into the profile entry by entry where it is strictly smaller; the first
\* yielded item is that profile merged with the first round's result.
C18_PrescrimpBeforeRounds ==
  /\ [](~prescrimp =>
         /\ pc # "prescrimp"
         /\ pre = EmptyOut(Cardinality(DOMAIN T) - m + 1)
         /\ pre_left = {})
  /\ []((prescrimp /\ pc \in {"setup", "running", "done", "error"}) => pre_left = {})
  /\ []((prescrimp /\ pc = "setup") =>
         \A i \in DOMAIN out.P :
           IF PreResult(pre).P[i] < Inf
           THEN out.P[i] = PreResult(pre).P[i] /\ out.I[i] = pre.I[i]
           ELSE out.P[i] = Inf /\ out.I[i] = 0 - 1)
  /\ []((prescrimp /\ Len(seen) = 1) =>
         /\ seen[1] = Merge(Merge(EmptyOut(l), PreResult(pre)), FirstRoundResult)
         /\ \A i \in DOMAIN out.P : seen[1].P[i] <= PreResult(pre).P[i])
  /\ [][(pre' # pre \/ pre_left' # pre_left) =>
          /\ prescrimp
          /\ pc \in {"created", "prescrimp"}
          /\ pc' = "prescrimp"
          /\ orders = <<>> /\ round = 0 /\ yielded = <<>>]_vars
  /\ [][(pc' = "prescrimp" /\ pc # "prescrimp") =>
          (pc = "created" /\ pre' = EmptyOut(l) /\ pre_left' = SampleRows(l, s))]_vars
  /\ [][(pc = "prescrimp" /\ pre' # pre) =>
          \E i \in pre_left : pre_left' = pre_left \ {i}]_vars

\* a first item with an entry that PreSCRIMP found and the first round did not
C18_Witness ==
  /\ prescrimp /\ Len(seen) = 1
  /\ \E i \in DOMAIN out.P :
       /\ seen[1].P[i] < Inf
       /\ seen[1].P[i] = PreResult(pre).P[i]
       /\ seen[1].I[i] = pre.I[i]
       /\ FirstRoundResult.P[i] > seen[1].P[i]

\* the pair (a, b) lies k steps forward or backward of the pair (i, j), within
\* the steps the loops of lines 350 and 362 take
ExtensionStep(i, j, a, b) ==
  \E k \in 1..(s - 1) :
    \/ /\ k <= Min2(s, l - Max2(i, j)) - 1
       /\ (a = i + k /\ b = j + k) \/ (a = j + k /\ b = i + k)
    \/ /\ k <= Min2(s, Min2(i + 1, j + 1)) - 1
       /\ (a = i - k /\ b = j - k) \/ (a = j - k /\ b = i - k)

NearestSquared(i) ==
  LET st == MeanStd(T, m)
      ds == {MassSq(T, m, st.mu, st.sigma, i, j) : j \in Allowed(i)} \cup {Inf}
  IN CHOOSE d \in ds : \A e \in ds : d <= e

\* a squared distance in the units of np.sqrt's results
InSqrtUnits(x) == IF x = Inf THEN Inf ELSE x * SqrtScale

\* C20 as claimed: after _prescrimp returns, the P[i] it returned is, for
\* every sampled row i, the exact nearest-neighbour squared distance of row i.
C20_ReturnedIsSquared ==
  (prescrimp /\ pc \in {"setup", "running", "done", "error"}) =>
    \A i \in SampleRows(l, s) :
      PreResult(pre).P[i] = InSqrtUnits(NearestSquared(i))

\* C20: once a sampled row i has been visited, the local P[i] is the exact
\* nearest-neighbour squared distance of row i, in whatever order the rows
\* are visited and whatever the other rows' column updates and extensions
\* write; the P[i] that _prescrimp returns (np.sqrt(P), line 374) is the
\* exact nearest-neighbour distance, the square root of that.
C20_SampledRowsExact ==
  (prescrimp /\ pc \in {"prescrimp", "setup", "running", "done", "error"}) =>
    \A i \in SampleRows(l, s) \ pre_left :
      /\ pre.P[i] = NearestSquared(i)
      /\ PreResult(pre).P[i] = NearestDistance(i)

\* the rows that the extension around (i, j) compares: (i + k, j + k) forward
\* and (i - k, j - k) backward (lines 350 and 362)
Extended(i, j) ==
  {<<i + k, j + k>> : k \in 1..(Min2(s, l - Max2(i, j)) - 1)}
    \cup {<<i - k, j - k>> : k \in 1..(Min2(s, Min2(i + 1, j + 1)) - 1)}

\* _prescrimp has returned; the extension around a sampled row i and its
\* match compared a pair whose second row a is sampled too, at a distance
\* larger than the one row a holds
C20_Witness ==
  /\ prescrimp /\ pc = "setup" /\ s >= 2
  /\ \E i \in SampleRows(l, s) :
       /\ pre.I[i] # 0 - 1
       /\ \E e \in Extended(i, pre.I[i]) :
            /\ e[2] \in SampleRows(l, s)
            /\ pre.P[e[2]] < MassSq(T, m, mu, sigma, e[1], e[2])

\* ------------------------------------------------- claims on MPdist
\* C23: _mpdist(T_A, T_B, m, percentage, k) and _mpdist(T_B, T_A, m,
\* percentage, k) end alike, with the same value or the same error: the sorted
\* array, the index chosen and the value selected are those of the call with
\* the series exchanged.
C23_MPdistSymmetric ==
  /\ mp.pc = "joined" =>
       mp.P_ABBA = Sorted(_compute_P_ABBA(mp.T_B, mp.T_A, mp.m))
  /\ mp.pc = "chosen" =>
       mp.k = IF mp.k_given THEN mp.k_arg
              ELSE MPPercentageK(MPClamp(mp.pnum), ALen(mp.T_B), ALen(mp.T_A), mp.m)
  /\ mp.pc \in {"done", "IndexError"} =>
       [pc |-> mp.pc, MPdist |-> mp.MPdist]
         = MPdistResult(mp.T_B, mp.T_A, mp.m, mp.pnum, mp.k_given, mp.k_arg)

\* a call on series of different lengths whose two joins, written one after
\* the other, depend on the order of the series, and that returned a finite
\* distance that is not 0
C23_Witness ==
  /\ mp.pc = "done"
  /\ ALen(mp.T_A) # ALen(mp.T_B)
  /\ _compute_P_ABBA(mp.T_A, mp.T_B, mp.m) # _compute_P_ABBA(mp.T_B, mp.T_A, mp.m)
  /\ mp.MPdist > 0 /\ mp.MPdist < Inf

\* ------------------------------------------- claims on the rows written
\* C22: for every n_split >= 1, permutation (of one diagonal or more), start
\* and percentage, the loop of _get_orders_ranges makes at most n_split - 1
\* cuts: every row index written, the one of the write after the loop
\* included, is at most n_split - 1, and n_split rows are returned.
C22_WritesWithinRows ==
  part.pc = "returned" =>
    /\ part.st.ranges_idx >= 0
    /\ part.st.ranges_idx <= part.n_split - 1
    /\ part.st.max_written <= part.n_split - 1
    /\ DOMAIN part.st.orders_ranges = 0..(part.n_split - 1)

\* a call that made n_split - 1 cuts, for three rows or more: the write after
\* the loop went to the last row
C22_Witness ==
  /\ part.pc = "returned" /\ part.n_split >= 3
  /\ part.st.ranges_idx = part.n_split - 1
  /\ part.st.max_written = part.n_split - 1

\* ------------------------------------------- claims on the stop index
\* C24 as claimed: with percentage >= 1 a call of _get_max_order_idx returns
\* len(orders) as its stop index, for every start in [0, len(orders)], a
\* start at which no diagonal remains included.
C24_StopIsLengthAtFullPercentage ==
  (part.pc # "called" /\ part.pnum >= PctDen) =>
    (part.pc = "returned" /\ part.mo[1] = ALen(part.orders))

\* what does hold: on a permutation that is not empty the call returns, with
\* len(orders) as its stop index, and the count of orders[start:]
C24_StopIsLengthWhenNotEmpty ==
  (part.pc # "called" /\ part.pnum >= PctDen /\ ALen(part.orders) >= 1) =>
    /\ part.pc = "returned"
    /\ part.mo[1] = ALen(part.orders)
    /\ part.mo[2] = SumDist(part.m, part.n, part.orders, part.start, ALen(part.orders))

\* such a call returned from a start at which no diagonal remains
C24_WitnessNoneRemains ==
  /\ part.pc = "returned" /\ part.pnum >= PctDen
  /\ ALen(part.orders) >= 2 /\ part.start = ALen(part.orders)

\* ------------------------------- claims on the profile and its indices
\* a row of a table that holds squared distances (lines 183-189, 270-272,
\* 334-372): no index exactly where the distance is +inf, and otherwise the
\* index of a window whose squared distance to window i is the one recorded
ConsistentSquared(P, I) ==
  \A i \in DOMAIN P :
    /\ (I[i] = 0 - 1) <=> (P[i] = Inf)
    /\ I[i] # 0 - 1 =>
         /\ 0 <= I[i] /\ I[i] < l
         /\ P[i] = MassSq(T, m, mu, sigma, i, I[i])

\* the same of a profile that holds distances (lines 274, 374, 464-466)
Consistent(P, I) ==
  \A i \in DOMAIN P :
    /\ (I[i] = 0 - 1) <=> (P[i] = Inf)
    /\ I[i] # 0 - 1 =>
         /\ 0 <= I[i] /\ I[i] < l
         /\ P[i] = Distance(i, I[i])

\* the table the workers of round r filled (lines 251-265)
RoundTable(r) ==
  WalkThreads(T, m, mu, sigma, orders, RoundRows(r), excl_zone, 0,
              EmptyTable(ranges_log[r].n_workers, l))

\* C21: in every table of the walker, of the reducer and of PreSCRIMP, and in
\* every item scrimp yields, at every position i: I[i] = -1 exactly when
\* P[i] = +inf, and otherwise 0 <= I[i] < l and P[i] is the distance of the
\* windows i and I[i], squared in the tables that _scrimp and _prescrimp keep,
\* and its square root in what they return and in what scrimp yields.  The
\* table of PreSCRIMP is looked at while PreSCRIMP runs, out once its result
\* is merged, and a round's tables and the item yielded at the round's yield.
C21_ProfileIndexConsistency ==
  [](/\ pc = "prescrimp" =>
          /\ ConsistentSquared(pre.P, pre.I)
          /\ Consistent(PreResult(pre).P, PreResult(pre).I)
     /\ pc = "setup" => Consistent(out.P, out.I)
     /\ (pc = "running" /\ round >= 1) =>
          LET tab == RoundTable(round)
              reduced == Reduce(tab, 1)
              returned == ScrimpResult(reduced)
          IN /\ \A t \in DOMAIN tab.P : ConsistentSquared(tab.P[t], tab.I[t])
             /\ ConsistentSquared(reduced.P[0], reduced.I[0])
             /\ Consistent(returned.P, returned.I)
             /\ Consistent(seen[Len(seen)].P, seen[Len(seen)].I)
     /\ DOMAIN red # {} =>
          /\ \A t \in DOMAIN red.tab.P :
               ConsistentSquared(red.tab.P[t], red.tab.I[t])
          /\ Consistent(red.result.P, red.result.I))

\* an item yielded in which one position has a match and another has none,
\* from a round in which a later worker's entry was reduced into slot 0 and
\* after a PreSCRIMP pass that recorded a match
C21_Witness ==
  /\ pc = "running" /\ round >= 1 /\ prescrimp
  /\ \E i, j \in 0..(l - 1) :
       /\ seen[Len(seen)].I[i] = 0 - 1
       /\ seen[Len(seen)].I[j] # 0 - 1
       /\ pre.I[j] # 0 - 1
  /\ LET tab == RoundTable(round) IN
       \E i \in 0..(l - 1) : \E t \in 1..(ALen(tab.P) - 1) :
         /\ tab.P[t][i] < tab.P[0][i]
         /\ Reduce(tab, 1).I[0][i] = tab.I[t][i]

====
